---- MODULE Spec2Model ----
(***************************************************************************)
(* Model of scraper.py: the card-type classifier, the monster stats        *)
(* extractor, the body-text segmenter, the seven record builders and the   *)
(* batch loop of main / process_url.                                       *)
(*                                                                         *)
(* A text is a sequence of characters.  Each character of the source's     *)
(* Japanese text is written as one ASCII token:                            *)
(*   kanji     tsuu=通 jou=常 wana=罠 ei=永 zoku=続 ma=魔 hou=法 soku=速    *)
(*             sou=装 bi=備 gi=儀 shiki=式 yuu=融 gou=合 kiku=効 ka=果      *)
(*             hoshi=星 yakara=族 kou=攻 shu=守 sei=制 gen=限 honoo=炎      *)
(*             sen=戦 shi=士 isamu=勇 kan=敢 hidari=左 migi=右 ue=上        *)
(*             shita=下                                                    *)
(*   kana      kKA=カ kU=ウ kN=ン kTA=タ kBAR=ー kFU=フ kxI=ィ kRU=ル       *)
(*             kDO=ド kRI=リ kKU=ク kE=エ kSHI=シ kZU=ズ kMO=モ kSU=ス      *)
(*             kRO=ロ kRA=ラ na=な                                          *)
(*   other     fwX=Ｘ lb=【 rb=】 fwcolon=： maru=。 NL=newline BR=<br>      *)
(*             arNW=↖ arN=↑ arNE=↗ arW=← arE=→ arSW=↙ arS=↓ arSE=↘          *)
(*   ASCII letters, digits, space and punctuation stand for themselves.    *)
(***************************************************************************)
EXTENDS Integers, Sequences, FiniteSets, TLC

VARIABLES mode, urls, idx, pc, soup, card_type, stats, card, log

vars == <<mode, urls, idx, pc, soup, card_type, stats, card, log>>

-----------------------------------------------------------------------------
(* Bounds of the model *)

MaxUrls == 2
MaxKw == 3
MaxFrags == 3
MaxToks == 3
MaxLines == 3
MaxDirs == 2

-----------------------------------------------------------------------------
(* Generic sequence helpers *)

RECURSIVE Concat(_)
Concat(ss) == IF ss = <<>> THEN <<>> ELSE Head(ss) \o Concat(Tail(ss))

SeqsUpTo(S, n) == UNION {[1..k -> S] : k \in 0..n}

Range(s) == {s[i] : i \in 1..Len(s)}

Min(S) == CHOOSE x \in S : \A y \in S : x <= y
Max(S) == CHOOSE x \in S : \A y \in S : x >= y

(* Python: sub in text *)
StartsAt(text, i, sub) ==
    /\ i + Len(sub) - 1 <= Len(text)
    /\ \A j \in 1..Len(sub) : text[i + j - 1] = sub[j]

Contains(text, sub) == \E i \in 1..(Len(text) + 1) : StartsAt(text, i, sub)

-----------------------------------------------------------------------------
(* Character classes of the re module *)

Digits == {"0", "1", "2", "3", "4", "5", "6", "7", "8", "9"}
Spaces == {" ", "NL"}

DigitVal(c) ==
    CASE c = "0" -> 0 [] c = "1" -> 1 [] c = "2" -> 2 [] c = "3" -> 3
      [] c = "4" -> 4 [] c = "5" -> 5 [] c = "6" -> 6 [] c = "7" -> 7
      [] c = "8" -> 8 [] c = "9" -> 9

(* Python: int(group) on a run of digits *)
RECURSIVE ToInt(_)
ToInt(ds) ==
    IF ds = <<>> THEN 0
    ELSE 10 * ToInt(SubSeq(ds, 1, Len(ds) - 1)) + DigitVal(ds[Len(ds)])

(* A class is a set of characters or its complement *)
Lit(c)   == [neg |-> FALSE, set |-> {c}]
ClsD     == [neg |-> FALSE, set |-> Digits]
ClsS     == [neg |-> FALSE, set |-> Spaces]
ClsNotS  == [neg |-> TRUE,  set |-> Spaces]
ClsDot   == [neg |-> TRUE,  set |-> {"NL"}]

InCls(c, cls) == (c \in cls.set) # cls.neg

(* One regex item: a class, repeated min..max times (max = -1: no limit),  *)
(* greedy or lazy, inside capture group grp (0: none)                      *)
One(cls, g)   == [cls |-> cls, min |-> 1, max |-> 1,  greedy |-> TRUE,  grp |-> g]
Plus(cls, g)  == [cls |-> cls, min |-> 1, max |-> -1, greedy |-> TRUE,  grp |-> g]
Star(cls, g)  == [cls |-> cls, min |-> 0, max |-> -1, greedy |-> TRUE,  grp |-> g]
LazyStar(cls, g) == [cls |-> cls, min |-> 0, max |-> -1, greedy |-> FALSE, grp |-> g]

RECURSIVE LitSeq(_)
LitSeq(s) == IF s = <<>> THEN <<>> ELSE <<One(Lit(Head(s)), 0)>> \o LitSeq(Tail(s))

(* Length of the longest run of characters of cls in text from pos *)
RunLen(text, pos, cls) ==
    LET end == CHOOSE j \in pos..(Len(text) + 1) :
                 /\ j = Len(text) + 1 \/ ~InCls(text[j], cls)
                 /\ \A i \in pos..(j - 1) : InCls(text[i], cls)
    IN  end - pos

NoMatch == [ok |-> FALSE, lens |-> <<>>]

(* The numbers of characters item k of rx may consume at pos: min..max,    *)
(* inside the run of characters of its class                               *)
ItemLens(rx, k, text, pos) ==
    LET run == RunLen(text, pos, rx[k].cls)
        hi  == IF rx[k].max = -1 \/ run < rx[k].max THEN run ELSE rx[k].max
    IN  rx[k].min..hi

(* acc[k] is the set of positions at which item k can start when the match *)
(* starts at the position in acc[1]; acc[Len(rx) + 1] is the set of        *)
(* positions at which such a match can end.  Stops at an empty set.        *)
RECURSIVE Reach(_, _, _)
Reach(rx, text, acc) ==
    IF Len(acc) = Len(rx) + 1 \/ acc[Len(acc)] = {} THEN acc
    ELSE Reach(rx, text,
               Append(acc, UNION {{pos + n : n \in ItemLens(rx, Len(acc), text, pos)} :
                                    pos \in acc[Len(acc)]}))

(* The positions of reach[k] from which items k.. of rx match, next being  *)
(* those from which items k+1.. match                                      *)
AliveAt(rx, text, reach, k, next) ==
    {pos \in reach[k] : \E n \in ItemLens(rx, k, text, pos) : pos + n \in next}

(* acc holds, for the last items of rx, the positions of reach from which  *)
(* the rest of rx matches; one more item is added in front                 *)
RECURSIVE Alive(_, _, _, _)
Alive(rx, text, reach, acc) ==
    IF Len(acc) = Len(rx) + 1 THEN acc
    ELSE Alive(rx, text, reach,
               <<AliveAt(rx, text, reach, Len(rx) + 1 - Len(acc), acc[1])>> \o acc)

(* The backtracking order: item k takes the first number of characters     *)
(* (greedy: the largest, lazy: the smallest) with which the rest of rx     *)
(* still matches                                                           *)
FirstLen(rx, text, alive, pos, k) ==
    LET ns == {n \in ItemLens(rx, k, text, pos) : pos + n \in alive[k + 1]}
    IN  IF rx[k].greedy THEN Max(ns) ELSE Min(ns)

(* lens holds the numbers of characters of the first items, which end at   *)
(* pos; the next item is added                                             *)
RECURSIVE TryLen(_, _, _, _, _)
TryLen(rx, text, alive, pos, lens) ==
    IF Len(lens) = Len(rx) THEN lens
    ELSE TryLen(rx, text, alive,
                pos + FirstLen(rx, text, alive, pos, Len(lens) + 1),
                Append(lens, FirstLen(rx, text, alive, pos, Len(lens) + 1)))

(* Whether items k.. of regex rx match at position pos *)
Matches(rx, k, text, pos) ==
    LET reach == Reach(SubSeq(rx, k, Len(rx)), text, <<{pos}>>)
    IN  Len(reach) = Len(rx) - k + 2 /\ reach[Len(reach)] # {}

(* Backtracking match of items k.. of regex rx at position pos: the first  *)
(* success in the engine's order.  lens[j] is the number of characters     *)
(* item k+j-1 consumed.                                                    *)
MatchAt(rx, k, text, pos) ==
    IF ~Matches(rx, k, text, pos) THEN NoMatch
    ELSE LET its   == SubSeq(rx, k, Len(rx))
             reach == Reach(its, text, <<{pos}>>)
         IN  [ok |-> TRUE,
              lens |-> TryLen(its, text,
                              Alive(its, text, reach, <<reach[Len(reach)]>>),
                              pos, <<>>)]

(* Python: re.search(rx, text): the match at the leftmost start position *)
SearchFrom(rx, text, p) ==
    LET starts == {q \in p..(Len(text) + 1) : Matches(rx, 1, text, q)}
    IN  IF starts = {} THEN [ok |-> FALSE, start |-> 0, lens |-> <<>>]
        ELSE [ok |-> TRUE, start |-> Min(starts),
              lens |-> MatchAt(rx, 1, text, Min(starts)).lens]

Search(rx, text) == SearchFrom(rx, text, 1)

RECURSIVE SumTo(_, _)
SumTo(lens, k) == IF k = 0 THEN 0 ELSE lens[k] + SumTo(lens, k - 1)

(* Python: match.group(g): the characters consumed by the items of group g *)
Group(rx, text, m, g) ==
    LET its   == {k \in 1..Len(rx) : rx[k].grp = g}
        first == Min(its)
        last  == Max(its)
        from  == m.start + SumTo(m.lens, first - 1)
        to    == m.start + SumTo(m.lens, last) - 1
    IN  SubSeq(text, from, to)

-----------------------------------------------------------------------------
(* The string literals of scraper.py *)

Monster == <<"kMO", "kN", "kSU", "kTA", "kBAR">>

KwNormalTrap     == <<"tsuu", "jou", "wana">>
KwContinuousTrap == <<"ei", "zoku", "wana">>
KwCounterTrap    == <<"kKA", "kU", "kN", "kTA", "kBAR", "wana">>

KwNormalMagic     == <<"tsuu", "jou", "ma", "hou">>
KwContinuousMagic == <<"ei", "zoku", "ma", "hou">>
KwQuickMagic      == <<"soku", "kou", "ma", "hou">>
KwEquipMagic      == <<"sou", "bi", "ma", "hou">>
KwFieldMagic      == <<"kFU", "kxI", "kBAR", "kRU", "kDO", "ma", "hou">>
KwRitualMagic     == <<"gi", "shiki", "ma", "hou">>

KwLink    == <<"kRI", "kN", "kKU">> \o Monster
KwXyz     == <<"kE", "kKU", "kSHI", "kBAR", "kZU">> \o Monster
KwXyzX    == <<"fwX">> \o Monster
KwSynchro == <<"kSHI", "kN", "kKU", "kRO">> \o Monster
KwFusion  == <<"yuu", "gou">> \o Monster
KwNormal  == <<"tsuu", "jou">> \o Monster
KwEffect  == <<"kiku", "ka">> \o Monster

CardTypeMonster == Monster
CardTypeTrap    == <<"wana">>
CardTypeMagic   == <<"ma", "hou">>

RestrictionMarker == <<"(", "sei", "gen", "kKA", "kBAR", "kDO", ")">>

DirUL == <<"hidari", "ue">>
DirU  == <<"ue">>
DirUR == <<"migi", "ue">>
DirL  == <<"hidari">>
DirR  == <<"migi">>
DirDL == <<"hidari", "shita">>
DirD  == <<"shita">>
DirDR == <<"migi", "shita">>

(* Canonical compass order of the fallback scan *)
CompassOrder == <<DirUL, DirU, DirUR, DirL, DirR, DirDL, DirD, DirDR>>
CompassArrow == <<"arNW", "arN", "arNE", "arW", "arE", "arSW", "arS", "arSE">>

-----------------------------------------------------------------------------
(* The regular expressions of scraper.py *)

Sep == <<Star(ClsS, 0), One(Lit("/"), 0), Star(ClsS, 0)>>

(* The full stats-line pattern with 守(\d) in place of 守(\d+) *)
RxFullStatsOneDigit ==
    <<One(Lit("hoshi"), 0), Star(ClsS, 0), Plus(ClsD, 1)>> \o Sep
    \o <<Plus(ClsNotS, 2)>> \o Sep
    \o <<Plus(ClsNotS, 3), One(Lit("yakara"), 3)>> \o Sep
    \o <<One(Lit("kou"), 0), Plus(ClsD, 4)>> \o Sep
    \o <<One(Lit("shu"), 0), One(ClsD, 5)>>

(* r'星\s*(\d+)\s*/\s*(\S+)\s*/\s*(\S+族)\s*/\s*攻(\d+)\s*/\s*守(\d+)' *)
RxFullStats ==
    <<One(Lit("hoshi"), 0), Star(ClsS, 0), Plus(ClsD, 1)>> \o Sep
    \o <<Plus(ClsNotS, 2)>> \o Sep
    \o <<Plus(ClsNotS, 3), One(Lit("yakara"), 3)>> \o Sep
    \o <<One(Lit("kou"), 0), Plus(ClsD, 4)>> \o Sep
    \o <<One(Lit("shu"), 0), Plus(ClsD, 5)>>

(* r'(\S+)\s*/\s*(\S+族)\s*/\s*攻(\d+)' *)
RxNoDefense ==
    <<Plus(ClsNotS, 1)>> \o Sep
    \o <<Plus(ClsNotS, 2), One(Lit("yakara"), 2)>> \o Sep
    \o <<One(Lit("kou"), 0), Plus(ClsD, 3)>>

(* r'LINK-(\d+)' *)
RxLink == LitSeq(<<"L", "I", "N", "K", "-">>) \o <<Plus(ClsD, 1)>>

(* r'ランク\s*(\d+)' *)
RxRank == LitSeq(<<"kRA", "kN", "kKU">>) \o <<Star(ClsS, 0), Plus(ClsD, 1)>>

(* The bracketed-token pattern with a greedy payload group *)
RxLinkDirsGreedy ==
    LitSeq(<<"lb", "L", "I", "N", "K", "-">>)
    \o <<Plus(ClsD, 0),
         One([neg |-> FALSE, set |-> {"fwcolon", ":"}], 0),
         Star(ClsDot, 1),
         One(Lit("rb"), 0)>>

(* r'【LINK-\d+[：:](.*?)】' *)
RxLinkDirs ==
    LitSeq(<<"lb", "L", "I", "N", "K", "-">>)
    \o <<Plus(ClsD, 0),
         One([neg |-> FALSE, set |-> {"fwcolon", ":"}], 0),
         LazyStar(ClsDot, 1),
         One(Lit("rb"), 0)>>

(* r'星\s*\d+\s*/\s*\S+\s*/\s*\S+族\s*/\s*攻\d+' *)
RxStatsLine ==
    <<One(Lit("hoshi"), 0), Star(ClsS, 0), Plus(ClsD, 0)>> \o Sep
    \o <<Plus(ClsNotS, 0)>> \o Sep
    \o <<Plus(ClsNotS, 0), One(Lit("yakara"), 0)>> \o Sep
    \o <<One(Lit("kou"), 0), Plus(ClsD, 0)>>

-----------------------------------------------------------------------------
(* The parsed page.  hasDesc: the page has a div.cardDescription; hasP: the *)
(* div has a p element; pre: the characters of the div in front of the p   *)
(* element; content: the characters and <br> elements ("BR") of the p      *)
(* element.                                                                *)

(* desc_box.get_text(): all characters of the div; a <br> element          *)
(* contributes no character                                                *)
GetText(s) == s.pre \o SelectSeq(s.content, LAMBDA c : c # "BR")

(* determine_card_type with the magic test in front of the trap test *)
determine_card_type_magic_first(s) ==
    IF ~s.hasDesc THEN "unknown"
    ELSE LET text == GetText(s) IN
      IF Contains(text, KwNormalMagic) \/ Contains(text, KwContinuousMagic)
         \/ Contains(text, KwQuickMagic) \/ Contains(text, KwEquipMagic)
         \/ Contains(text, KwFieldMagic) \/ Contains(text, KwRitualMagic) THEN "magic"
      ELSE IF Contains(text, KwNormalTrap) \/ Contains(text, KwContinuousTrap)
         \/ Contains(text, KwCounterTrap) THEN "trap"
      ELSE IF Contains(text, KwLink) THEN "link"
      ELSE IF Contains(text, KwXyz) \/ Contains(text, KwXyzX) THEN "xyz"
      ELSE IF Contains(text, KwSynchro) THEN "synchro"
      ELSE IF Contains(text, KwFusion) THEN "fusion"
      ELSE IF Contains(text, KwNormal) \/ Contains(text, KwEffect) THEN "monster"
      ELSE "unknown"

(* determine_card_type *)
determine_card_type(s) ==
    IF ~s.hasDesc THEN "unknown"
    ELSE LET text == GetText(s) IN
      IF Contains(text, KwNormalTrap) \/ Contains(text, KwContinuousTrap)
         \/ Contains(text, KwCounterTrap) THEN "trap"
      ELSE IF Contains(text, KwNormalMagic) \/ Contains(text, KwContinuousMagic)
         \/ Contains(text, KwQuickMagic) \/ Contains(text, KwEquipMagic)
         \/ Contains(text, KwFieldMagic) \/ Contains(text, KwRitualMagic) THEN "magic"
      ELSE IF Contains(text, KwLink) THEN "link"
      ELSE IF Contains(text, KwXyz) \/ Contains(text, KwXyzX) THEN "xyz"
      ELSE IF Contains(text, KwSynchro) THEN "synchro"
      ELSE IF Contains(text, KwFusion) THEN "fusion"
      ELSE IF Contains(text, KwNormal) \/ Contains(text, KwEffect) THEN "monster"
      ELSE "unknown"

-----------------------------------------------------------------------------
(* Python dict: a function from the keys present to their values *)

EmptyDict == <<>>
Put(d, k, v) == [x \in (DOMAIN d) \cup {k} |-> IF x = k THEN v ELSE d[x]]
Has(d, k) == k \in DOMAIN d
Get(d, k, default) == IF k \in DOMAIN d THEN d[k] ELSE default

(* Optional[int]: None is the empty sequence, a value v is <<v>> *)
None == <<>>
Some(v) == <<v>>

(* Python: str.strip() *)
RECURSIVE LStrip(_)
LStrip(s) == IF s # <<>> /\ Head(s) \in Spaces THEN LStrip(Tail(s)) ELSE s
RECURSIVE RStrip(_)
RStrip(s) ==
    IF s # <<>> /\ s[Len(s)] \in Spaces THEN RStrip(SubSeq(s, 1, Len(s) - 1)) ELSE s
Strip(s) == RStrip(LStrip(s))

(* Python: str.split(sep) for a one-character separator *)
RECURSIVE Split(_, _)
Split(s, sep) ==
    LET hits == {i \in 1..Len(s) : s[i] = sep}
    IN  IF hits = {} THEN <<s>>
        ELSE LET i == Min(hits)
             IN  <<SubSeq(s, 1, i - 1)>> \o Split(SubSeq(s, i + 1, Len(s)), sep)

-----------------------------------------------------------------------------
(* extract_card_name, extract_image_info: read from parts of the page that *)
(* the description text does not influence                                 *)

extract_card_name(s) == s.name
extract_image_info(s) == s.img

(* re.sub(r'\s+', ' ', html_content): every run of whitespace becomes one  *)
(* space; the <br> elements are markup and stay                            *)
CollapseSpaces(cs) ==
    LET first == SelectSeq([i \in 1..Len(cs) |-> i],
                           LAMBDA i : cs[i] \notin Spaces
                                      \/ i = 1 \/ cs[i - 1] \notin Spaces)
    IN  [j \in 1..Len(first) |->
           IF cs[first[j]] \in Spaces THEN " " ELSE cs[first[j]]]

(* br.replace_with("\n"); text.split('\n') *)
PartsOf(s) == Split(CollapseSpaces(s.content), "BR")

IsTypeTag(part)   == Contains(part, <<"lb">>) /\ Contains(part, <<"rb">>)
IsStatsLine(part) == Search(RxStatsLine, part).ok

(* The loop with a restriction marker taken for a header line *)
RECURSIVE CardTextLoopMarkerIsHeader(_, _, _, _)
CardTextLoopMarkerIsHeader(parts, i, found, acc) ==
    IF i > Len(parts) THEN acc
    ELSE LET part == Strip(parts[i]) IN
      IF part = <<>> THEN CardTextLoopMarkerIsHeader(parts, i + 1, found, acc)
      ELSE IF IsTypeTag(part) \/ IsStatsLine(part) \/ part = RestrictionMarker
           THEN CardTextLoopMarkerIsHeader(parts, i + 1, TRUE, acc)
      ELSE IF found
           THEN CardTextLoopMarkerIsHeader(parts, i + 1, found, Append(acc, part))
      ELSE CardTextLoopMarkerIsHeader(parts, i + 1, found, acc)

(* The for loop of extract_card_text over parts[i..], with the flag        *)
(* found_card_type and the list card_text_parts                            *)
RECURSIVE CardTextLoop(_, _, _, _)
CardTextLoop(parts, i, found, acc) ==
    IF i > Len(parts) THEN acc
    ELSE LET part == Strip(parts[i]) IN
      IF part = <<>> THEN CardTextLoop(parts, i + 1, found, acc)
      ELSE IF IsTypeTag(part) THEN CardTextLoop(parts, i + 1, TRUE, acc)
      ELSE IF IsStatsLine(part) THEN CardTextLoop(parts, i + 1, TRUE, acc)
      ELSE IF part = RestrictionMarker THEN CardTextLoop(parts, i + 1, found, acc)
      ELSE IF found THEN CardTextLoop(parts, i + 1, found, Append(acc, part))
      ELSE CardTextLoop(parts, i + 1, found, acc)

(* Python: ' '.join(list) *)
RECURSIVE JoinSpace(_)
JoinSpace(ps) ==
    IF ps = <<>> THEN <<>>
    ELSE IF Len(ps) = 1 THEN ps[1]
    ELSE ps[1] \o <<" ">> \o JoinSpace(Tail(ps))

(* extract_card_text *)
extract_card_text(s) ==
    IF s.hasDesc /\ s.hasP
    THEN JoinSpace(CardTextLoop(PartsOf(s), 1, FALSE, <<>>))
    ELSE <<>>

-----------------------------------------------------------------------------
(* extract_monster_stats *)

(* The LINK value and the rank searched only when the no-defense pattern   *)
(* did not match                                                           *)
StatsNumbersElif(text) ==
    LET full == Search(RxFullStats, text) IN
    IF full.ok
    THEN [level      |-> ToInt(Group(RxFullStats, text, full, 1)),
          element    |-> Group(RxFullStats, text, full, 2),
          race       |-> Group(RxFullStats, text, full, 3),
          attack     |-> ToInt(Group(RxFullStats, text, full, 4)),
          defense    |-> ToInt(Group(RxFullStats, text, full, 5)),
          hasDefense |-> TRUE,
          hasLevel   |-> TRUE]
    ELSE
      LET nodef == Search(RxNoDefense, text)
          s1 == IF nodef.ok
                THEN [element    |-> Group(RxNoDefense, text, nodef, 1),
                      race       |-> Group(RxNoDefense, text, nodef, 2),
                      attack     |-> ToInt(Group(RxNoDefense, text, nodef, 3)),
                      hasDefense |-> FALSE]
                ELSE EmptyDict
          link_match == Search(RxLink, text)
          s2 == IF link_match.ok /\ ~nodef.ok
                THEN Put(Put(Put(s1, "link", ToInt(Group(RxLink, text, link_match, 1))),
                             "hasLink", TRUE), "hasLevel", FALSE)
                ELSE s1
          rank_match == Search(RxRank, text)
          s3 == IF rank_match.ok /\ ~nodef.ok
                THEN Put(Put(Put(s2, "rank", ToInt(Group(RxRank, text, rank_match, 1))),
                             "hasRank", TRUE), "hasLevel", FALSE)
                ELSE s2
      IN  s3

(* lines 283-314: the stats line, the LINK value and the rank *)
StatsNumbers(text) ==
    LET full == Search(RxFullStats, text) IN
    IF full.ok
    THEN [level      |-> ToInt(Group(RxFullStats, text, full, 1)),
          element    |-> Group(RxFullStats, text, full, 2),
          race       |-> Group(RxFullStats, text, full, 3),
          attack     |-> ToInt(Group(RxFullStats, text, full, 4)),
          defense    |-> ToInt(Group(RxFullStats, text, full, 5)),
          hasDefense |-> TRUE,
          hasLevel   |-> TRUE]
    ELSE
      LET nodef == Search(RxNoDefense, text)
          s1 == IF nodef.ok
                THEN [element    |-> Group(RxNoDefense, text, nodef, 1),
                      race       |-> Group(RxNoDefense, text, nodef, 2),
                      attack     |-> ToInt(Group(RxNoDefense, text, nodef, 3)),
                      hasDefense |-> FALSE]
                ELSE EmptyDict
          link_match == Search(RxLink, text)
          s2 == IF link_match.ok
                THEN Put(Put(Put(s1, "link", ToInt(Group(RxLink, text, link_match, 1))),
                             "hasLink", TRUE), "hasLevel", FALSE)
                ELSE s1
          rank_match == Search(RxRank, text)
          s3 == IF rank_match.ok
                THEN Put(Put(Put(s2, "rank", ToInt(Group(RxRank, text, rank_match, 1))),
                             "hasRank", TRUE), "hasLevel", FALSE)
                ELSE s2
      IN  s3

(* lines 316-328: the subtype scan *)
StatsMonsterType(st, text) ==
    IF Contains(text, KwNormal) THEN Put(st, "monster_type", KwNormal)
    ELSE IF Contains(text, KwEffect) THEN Put(st, "monster_type", KwEffect)
    ELSE IF Contains(text, KwFusion) THEN Put(st, "monster_type", KwFusion)
    ELSE IF Contains(text, KwSynchro) THEN Put(st, "monster_type", KwSynchro)
    ELSE IF Contains(text, KwXyz) THEN Put(st, "monster_type", KwXyz)
    ELSE IF Contains(text, KwLink) THEN Put(st, "monster_type", KwLink)
    ELSE st

(* lines 335-343: the directions of the bracketed token's payload *)
RECURSIVE KeepNonEmpty(_)
KeepNonEmpty(ps) ==
    IF ps = <<>> THEN <<>>
    ELSE IF Strip(Head(ps)) # <<>>
         THEN <<Strip(Head(ps))>> \o KeepNonEmpty(Tail(ps))
         ELSE KeepNonEmpty(Tail(ps))

BracketDirs(dirs_text) == KeepNonEmpty(Split(dirs_text, "/"))

(* lines 346-354: the fallback scan, one test per direction in the order   *)
(* of the source                                                           *)
RECURSIVE FallbackFrom(_, _)
FallbackFrom(text, k) ==
    IF k > Len(CompassOrder) THEN <<>>
    ELSE (IF Contains(text, <<CompassArrow[k]>>) \/ Contains(text, CompassOrder[k])
          THEN <<CompassOrder[k]>> ELSE <<>>)
         \o FallbackFrom(text, k + 1)

(* The scan with the four cardinal directions in front of the diagonals *)
FallbackDirsCardinalsFirst(text) ==
    LET all == FallbackFrom(text, 1)
    IN  SelectSeq(all, LAMBDA d : Len(d) = 1) \o SelectSeq(all, LAMBDA d : Len(d) = 2)

FallbackDirs(text) == FallbackFrom(text, 1)

(* lines 330-356 *)
StatsLinkDirection(st, text) ==
    IF Get(st, "hasLink", FALSE) \/ Contains(text, KwLink)
    THEN LET link_pattern == Search(RxLinkDirs, text) IN
         IF link_pattern.ok
         THEN Put(st, "linkDirection",
                  BracketDirs(Group(RxLinkDirs, text, link_pattern, 1)))
         ELSE IF FallbackDirs(text) # <<>>
              THEN Put(st, "linkDirection", FallbackDirs(text))
              ELSE st
    ELSE st

extract_monster_stats(s) ==
    IF s.hasDesc
    THEN LET text == GetText(s)
         IN  StatsLinkDirection(StatsMonsterType(StatsNumbers(text), text), text)
    ELSE EmptyDict

-----------------------------------------------------------------------------
(* The dataclasses, lines 17-88 *)

BaseCardFields == {"card_name", "card_type", "text", "image"}

MonsterCardFields ==
    BaseCardFields \cup
    {"monster_type", "level", "element", "race", "attack", "defense",
     "hasDefense", "hasLevel", "hasRank", "hasLink", "canNormalSummon"}

MaterialDefaults ==
    [filterAvailableMaterials |-> "() => true", materialCondition |-> "() => true"]

(* Fields without a default value: the arguments __init__ requires *)
Required(cls) ==
    CASE cls = "TrapCard"           -> BaseCardFields \cup {"trap_type"}
      [] cls = "MagicCard"          -> BaseCardFields \cup {"magic_type"}
      [] cls = "MonsterCard"        -> MonsterCardFields
      [] cls = "XyzMonsterCard"     -> MonsterCardFields \cup {"rank"}
      [] cls = "FusionMonsterCard"  -> MonsterCardFields
      [] cls = "SynchroMonsterCard" -> MonsterCardFields
      [] cls = "LinkMonsterCard"    ->
           BaseCardFields \cup
           {"monster_type", "link", "linkDirection", "element", "race", "attack"}

(* Fields with a default value *)
Defaults(cls) ==
    CASE cls \in {"TrapCard", "MagicCard", "MonsterCard"} -> EmptyDict
      [] cls \in {"XyzMonsterCard", "FusionMonsterCard", "SynchroMonsterCard"} ->
           MaterialDefaults
      [] cls = "LinkMonsterCard" ->
           [hasDefense |-> FALSE, hasLevel |-> FALSE, hasRank |-> FALSE,
            hasLink |-> TRUE, canNormalSummon |-> FALSE,
            filterAvailableMaterials |-> "() => true",
            materialCondition |-> "() => true"]

TypeError == [class |-> "TypeError"]
NoCard    == [class |-> "None"]

(* XyzMonsterCard.__post_init__, lines 56-59 *)
PostInit(cls, obj) ==
    IF cls = "XyzMonsterCard"
    THEN [obj EXCEPT !["hasLevel"] = FALSE, !["hasRank"] = TRUE, !["level"] = None]
    ELSE obj

(* The generated __init__ of a dataclass called with keyword arguments:    *)
(* TypeError when a required argument is missing or an argument is unknown *)
New(cls, kwargs) ==
    LET fields == Required(cls) \cup DOMAIN Defaults(cls) IN
    IF Required(cls) \subseteq DOMAIN kwargs /\ DOMAIN kwargs \subseteq fields
    THEN PostInit(cls,
           [k \in fields \cup {"class"} |->
              IF k = "class" THEN cls
              ELSE IF k \in DOMAIN kwargs THEN kwargs[k]
              ELSE Defaults(cls)[k]])
    ELSE TypeError

(* stats.get(key) for an Optional[int] field *)
GetOpt(d, k) == IF k \in DOMAIN d THEN Some(d[k]) ELSE None

-----------------------------------------------------------------------------
(* The record builders, lines 221-476.  A monster builder receives in st   *)
(* the result of its call of extract_monster_stats, which the step         *)
(* ExtractStats has made.                                                  *)

extract_trap_card(s) ==
    LET desc_text == GetText(s)
        trap_type ==
          IF ~s.hasDesc THEN KwNormalTrap
          ELSE IF Contains(desc_text, KwContinuousTrap) THEN KwContinuousTrap
          ELSE IF Contains(desc_text, KwCounterTrap) THEN KwCounterTrap
          ELSE KwNormalTrap
    IN  New("TrapCard",
            [card_name |-> extract_card_name(s),
             card_type |-> CardTypeTrap,
             trap_type |-> trap_type,
             text      |-> extract_card_text(s),
             image     |-> extract_image_info(s)])

extract_magic_card(s) ==
    LET desc_text == GetText(s)
        magic_type ==
          IF ~s.hasDesc THEN KwNormalMagic
          ELSE IF Contains(desc_text, KwContinuousMagic) THEN KwContinuousMagic
          ELSE IF Contains(desc_text, KwQuickMagic) THEN KwQuickMagic
          ELSE IF Contains(desc_text, KwEquipMagic) THEN KwEquipMagic
          ELSE IF Contains(desc_text, KwFieldMagic) THEN KwFieldMagic
          ELSE IF Contains(desc_text, KwRitualMagic) THEN KwRitualMagic
          ELSE KwNormalMagic
    IN  New("MagicCard",
            [card_name  |-> extract_card_name(s),
             card_type  |-> CardTypeMagic,
             magic_type |-> magic_type,
             text       |-> extract_card_text(s),
             image      |-> extract_image_info(s)])

extract_monster_card(s, st) ==
    New("MonsterCard",
        [card_name    |-> extract_card_name(s),
         card_type    |-> CardTypeMonster,
         monster_type |-> Get(st, "monster_type", KwEffect),
         level        |-> GetOpt(st, "level"),
         element      |-> Get(st, "element", <<>>),
         race         |-> Get(st, "race", <<>>),
         attack       |-> Get(st, "attack", 0),
         defense      |-> GetOpt(st, "defense"),
         text         |-> extract_card_text(s),
         image        |-> extract_image_info(s),
         hasDefense   |-> Get(st, "hasDefense", TRUE),
         hasLevel     |-> Get(st, "hasLevel", TRUE),
         hasRank      |-> FALSE,
         hasLink      |-> FALSE,
         canNormalSummon |-> (Has(st, "monster_type")
                              /\ st["monster_type"] = KwNormal)])

extract_xyz_card(s, st) ==
    New("XyzMonsterCard",
        [card_name    |-> extract_card_name(s),
         card_type    |-> CardTypeMonster,
         monster_type |-> KwXyz,
         rank         |-> Get(st, "rank", Get(st, "level", 0)),
         element      |-> Get(st, "element", <<>>),
         race         |-> Get(st, "race", <<>>),
         attack       |-> Get(st, "attack", 0),
         defense      |-> Some(Get(st, "defense", 0)),
         text         |-> extract_card_text(s),
         image        |-> extract_image_info(s),
         hasDefense   |-> TRUE,
         canNormalSummon |-> FALSE])

(* The Fusion builder with the label of the scan *)
extract_fusion_card_scan_label(s, st) ==
    New("FusionMonsterCard",
        [card_name    |-> extract_card_name(s),
         card_type    |-> CardTypeMonster,
         monster_type |-> Get(st, "monster_type", KwFusion),
         level        |-> GetOpt(st, "level"),
         element      |-> Get(st, "element", <<>>),
         race         |-> Get(st, "race", <<>>),
         attack       |-> Get(st, "attack", 0),
         defense      |-> Some(Get(st, "defense", 0)),
         text         |-> extract_card_text(s),
         image        |-> extract_image_info(s),
         hasDefense   |-> TRUE,
         hasLevel     |-> TRUE,
         hasRank      |-> FALSE,
         hasLink      |-> FALSE,
         canNormalSummon |-> FALSE])

extract_fusion_card(s, st) ==
    New("FusionMonsterCard",
        [card_name    |-> extract_card_name(s),
         card_type    |-> CardTypeMonster,
         monster_type |-> KwFusion,
         level        |-> GetOpt(st, "level"),
         element      |-> Get(st, "element", <<>>),
         race         |-> Get(st, "race", <<>>),
         attack       |-> Get(st, "attack", 0),
         defense      |-> Some(Get(st, "defense", 0)),
         text         |-> extract_card_text(s),
         image        |-> extract_image_info(s),
         hasDefense   |-> TRUE,
         hasLevel     |-> TRUE,
         hasRank      |-> FALSE,
         hasLink      |-> FALSE,
         canNormalSummon |-> FALSE])

(* The Synchro builder with canNormalSummon computed from the label of    *)
(* the scan, as extract_monster_card computes it                           *)
extract_synchro_card_scan_summon(s, st) ==
    New("SynchroMonsterCard",
        [card_name    |-> extract_card_name(s),
         card_type    |-> CardTypeMonster,
         monster_type |-> KwSynchro,
         level        |-> GetOpt(st, "level"),
         element      |-> Get(st, "element", <<>>),
         race         |-> Get(st, "race", <<>>),
         attack       |-> Get(st, "attack", 0),
         defense      |-> Some(Get(st, "defense", 0)),
         text         |-> extract_card_text(s),
         image        |-> extract_image_info(s),
         hasDefense   |-> TRUE,
         hasLevel     |-> TRUE,
         hasRank      |-> FALSE,
         hasLink      |-> FALSE,
         canNormalSummon |-> (Has(st, "monster_type")
                              /\ st["monster_type"] = KwNormal)])

extract_synchro_card(s, st) ==
    New("SynchroMonsterCard",
        [card_name    |-> extract_card_name(s),
         card_type    |-> CardTypeMonster,
         monster_type |-> KwSynchro,
         level        |-> GetOpt(st, "level"),
         element      |-> Get(st, "element", <<>>),
         race         |-> Get(st, "race", <<>>),
         attack       |-> Get(st, "attack", 0),
         defense      |-> Some(Get(st, "defense", 0)),
         text         |-> extract_card_text(s),
         image        |-> extract_image_info(s),
         hasDefense   |-> TRUE,
         hasLevel     |-> TRUE,
         hasRank      |-> FALSE,
         hasLink      |-> FALSE,
         canNormalSummon |-> FALSE])

extract_link_card(s, st) ==
    New("LinkMonsterCard",
        [card_name     |-> extract_card_name(s),
         card_type     |-> CardTypeMonster,
         monster_type  |-> KwLink,
         link          |-> Get(st, "link", 0),
         linkDirection |-> Get(st, "linkDirection", <<>>),
         element       |-> Get(st, "element", <<>>),
         race          |-> Get(st, "race", <<>>),
         attack        |-> Get(st, "attack", 0),
         text          |-> extract_card_text(s),
         image         |-> extract_image_info(s),
         canNormalSummon |-> FALSE])

(* process_url, lines 545-560: the builder arm of a category *)
ExtractCard(ct, s, st) ==
    CASE ct = "trap"    -> extract_trap_card(s)
      [] ct = "magic"   -> extract_magic_card(s)
      [] ct = "monster" -> extract_monster_card(s, st)
      [] ct = "xyz"     -> extract_xyz_card(s, st)
      [] ct = "fusion"  -> extract_fusion_card(s, st)
      [] ct = "synchro" -> extract_synchro_card(s, st)
      [] ct = "link"    -> extract_link_card(s, st)

-----------------------------------------------------------------------------
(* The pages a fetch can return, by input family *)

AllKeywords ==
    {KwNormalTrap, KwContinuousTrap, KwCounterTrap,
     KwNormalMagic, KwContinuousMagic, KwQuickMagic, KwEquipMagic,
     KwFieldMagic, KwRitualMagic,
     KwLink, KwXyz, KwXyzX, KwSynchro, KwFusion, KwNormal, KwEffect}

(* 星4/炎/戦士族/攻18/守12,  炎/戦士族/攻18,  LINK-2,  ランク4 *)
FullLine  == <<"hoshi", "4", "/", "honoo", "/", "sen", "shi", "yakara", "/",
               "kou", "1", "8", "/", "shu", "1", "2">>
NoDefLine == <<"honoo", "/", "sen", "shi", "yakara", "/", "kou", "1", "8">>
LinkTok   == <<"L", "I", "N", "K", "-", "2">>
RankTok   == <<"kRA", "kN", "kKU", "4">>

(* LINK-2：左/右 without and with the brackets, LINK-3, 【LINK-3：上】 *)
LinkLR     == LinkTok \o <<"fwcolon", "hidari", "/", "migi">>
BracketLR  == <<"lb">> \o LinkLR \o <<"rb">>
Link3Tok   == <<"L", "I", "N", "K", "-", "3">>
Bracket3Up == <<"lb">> \o Link3Tok \o <<":", "ue", "rb">>

(* 【LINK-2：d1/d2/...】 *)
RECURSIVE JoinSlash(_)
JoinSlash(ds) ==
    IF ds = <<>> THEN <<>>
    ELSE IF Len(ds) = 1 THEN ds[1]
    ELSE ds[1] \o <<"/">> \o JoinSlash(Tail(ds))

BracketTok(ds) == <<"lb">> \o LinkTok \o <<"fwcolon">> \o JoinSlash(ds) \o <<"rb">>

(* 【通常モンスター】 星4 / 炎 / 戦士族 / 攻1800 / 守1200 勇敢な戦士。 *)
E2ETag   == <<"lb">> \o KwNormal \o <<"rb">>
E2EStats == <<"hoshi", "4", " ", "/", " ", "honoo", " ", "/", " ",
              "sen", "shi", "yakara", " ", "/", " ",
              "kou", "1", "8", "0", "0", " ", "/", " ",
              "shu", "1", "2", "0", "0">>
E2EProse == <<"isamu", "kan", "na", "sen", "shi", "maru">>
E2EText  == E2ETag \o <<" ">> \o E2EStats \o <<" ">> \o E2EProse
E2ELines == E2ETag \o <<"BR">> \o E2EStats \o <<"BR">> \o E2EProse

StatsFrags ==
    {KwNormal, KwEffect, KwFusion, KwSynchro, KwXyz, KwLink,
     FullLine, NoDefLine, LinkTok, RankTok, <<" ">>}

LinkFrags ==
    {KwLink, LinkLR, BracketLR, Link3Tok, Bracket3Up, FullLine, DirD, <<" ">>}

BodyLines ==
    {<<>>, <<" ">>, <<"lb", "wana", "rb">>, <<"lb">>, FullLine, NoDefLine,
     RestrictionMarker, <<"a">>, <<" ", "b", " ">>, <<"x", " ", "NL", "y">>}

DirTails == {<<>>} \cup {<<CompassArrow[k]>> : k \in 1..Len(CompassArrow)}

RECURSIVE JoinBR(_)
JoinBR(ls) ==
    IF ls = <<>> THEN <<>>
    ELSE IF Len(ls) = 1 THEN ls[1]
    ELSE ls[1] \o <<"BR">> \o JoinBR(Tail(ls))

Contents(m) ==
    CASE m = "kw"    -> {Concat(fs) : fs \in SeqsUpTo(AllKeywords, MaxKw)}
      [] m = "stats" -> {Concat(fs) : fs \in SeqsUpTo(StatsFrags, MaxFrags)}
                        \cup {E2EText, E2ELines}
      [] m = "link"  -> {Concat(fs) : fs \in SeqsUpTo(LinkFrags, MaxToks)}
      [] m = "body"  -> {JoinBR(ls) : ls \in SeqsUpTo(BodyLines, MaxLines)}
      [] m = "dirs"  -> {KwLink \o BracketTok(ds) \o t :
                           ds \in SeqsUpTo(Range(CompassOrder), MaxDirs), t \in DirTails}
      [] m = "batch" -> {<<>>} \cup AllKeywords

Modes == {"kw", "stats", "link", "body", "dirs"}

(* In the "body" family the type keyword stands in front of the p element *)
PreOf(m) == IF m = "body" THEN KwNormalTrap ELSE <<>>

PageOf(pre, c) == [hasDesc |-> TRUE, hasP |-> TRUE, pre |-> pre, content |-> c,
                   name |-> <<"n">>, img |-> <<"i">>]

NoDescPage == [hasDesc |-> FALSE, hasP |-> FALSE, pre |-> <<>>, content |-> <<>>,
               name |-> <<"n">>, img |-> <<"i">>]

NoPPage == [hasDesc |-> TRUE, hasP |-> FALSE, pre |-> KwNormalTrap, content |-> <<>>,
            name |-> <<"n">>, img |-> <<"i">>]

Pages(m) ==
    {PageOf(PreOf(m), c) : c \in Contents(m)}
    \cup {NoDescPage, NoPPage, PageOf(<<>>, KwEffect)}

-----------------------------------------------------------------------------
(* main and process_url, lines 531-604 *)

NoSoup == [hasDesc |-> FALSE, hasP |-> FALSE, pre |-> <<>>, content |-> <<>>,
           name |-> <<>>, img |-> <<>>]

LogEntry(ct, result) == [url |-> urls[idx], card_type |-> ct, result |-> result]

(* process_url returns (or its except clause has run): main's for loop     *)
(* moves to the next URL and the locals of process_url are gone            *)
Return(ct, result) ==
    /\ log' = Append(log, LogEntry(ct, result))
    /\ idx' = idx + 1
    /\ pc' = "loop"
    /\ soup' = NoSoup
    /\ card_type' = "none"
    /\ stats' = EmptyDict
    /\ card' = NoCard
    /\ UNCHANGED <<mode, urls>>

(* line 536: fetch_page returns the parsed page *)
FetchPage ==
    /\ pc = "loop"
    /\ idx <= Len(urls)
    /\ \E page \in Pages(mode) : soup' = page
    /\ pc' = "fetched"
    /\ UNCHANGED <<mode, urls, idx, card_type, stats, card, log>>

(* line 536: session.get or raise_for_status raises; lines 574-575 *)
FetchFail ==
    /\ pc = "loop"
    /\ idx <= Len(urls)
    /\ Return("none", "fetch_error")

(* lines 537-543 *)
DetermineCardType ==
    /\ pc = "fetched"
    /\ LET ct == determine_card_type(soup) IN
         IF ct = "unknown"
         THEN Return("unknown", "unknown")
         ELSE /\ card_type' = ct
              /\ pc' = "typed"
              /\ UNCHANGED <<mode, urls, idx, soup, stats, card, log>>

MonsterFamily == {"monster", "xyz", "fusion", "synchro", "link"}

(* lines 547-550: the trap and magic arms build the record at once *)
ExtractPlain ==
    /\ pc = "typed"
    /\ card_type \in {"trap", "magic"}
    /\ card' = ExtractCard(card_type, soup, EmptyDict)
    /\ pc' = "built"
    /\ UNCHANGED <<mode, urls, idx, soup, card_type, stats, log>>

(* lines 551-560: a monster arm first calls extract_monster_stats *)
ExtractStats ==
    /\ pc = "typed"
    /\ card_type \in MonsterFamily
    /\ stats' = extract_monster_stats(soup)
    /\ pc' = "stats"
    /\ UNCHANGED <<mode, urls, idx, soup, card_type, card, log>>

(* ... and then calls the constructor of its variant; a TypeError of the   *)
(* constructor goes to lines 574-575                                       *)
BuildMonster ==
    /\ pc = "stats"
    /\ LET c == ExtractCard(card_type, soup, stats) IN
         IF c = TypeError
         THEN Return(card_type, "build_error")
         ELSE /\ card' = c
              /\ pc' = "built"
              /\ UNCHANGED <<mode, urls, idx, soup, card_type, stats, log>>

(* lines 562-572: download_image catches its own errors, the file is       *)
(* written                                                                 *)
Save ==
    /\ pc = "built"
    /\ Return(card_type, "saved")

(* line 526: open or write raises; lines 574-575 *)
SaveFail ==
    /\ pc = "built"
    /\ Return(card_type, "write_error")

(* line 604: the for loop is exhausted *)
Complete ==
    /\ pc = "loop"
    /\ idx = Len(urls) + 1
    /\ pc' = "done"
    /\ UNCHANGED <<mode, urls, idx, soup, card_type, stats, card, log>>

Next ==
    \/ FetchPage
    \/ FetchFail
    \/ DetermineCardType
    \/ ExtractPlain
    \/ ExtractStats
    \/ BuildMonster
    \/ Save
    \/ SaveFail
    \/ Complete

InitRun ==
    /\ idx = 1
    /\ pc = "loop"
    /\ soup = NoSoup
    /\ card_type = "none"
    /\ stats = EmptyDict
    /\ card = NoCard
    /\ log = <<>>

(* One URL, its page drawn from input family m *)
InitMode(m) ==
    /\ mode = m
    /\ urls = <<1>>
    /\ InitRun

Init == \E m \in Modes : InitMode(m)

(* A list of up to MaxUrls URLs *)
InitBatch ==
    /\ mode = "batch"
    /\ urls \in {[i \in 1..n |-> i] : n \in 1..MaxUrls}
    /\ InitRun

Spec      == Init /\ [][Next]_vars
SpecKw    == InitMode("kw") /\ [][Next]_vars
SpecStats == InitMode("stats") /\ [][Next]_vars
SpecLink  == InitMode("link") /\ [][Next]_vars
SpecBody  == InitMode("body") /\ [][Next]_vars
SpecDirs  == InitMode("dirs") /\ [][Next]_vars
SpecBatch == InitBatch /\ [][Next]_vars

TypeOK ==
    /\ pc \in {"loop", "fetched", "typed", "stats", "built", "done"}
    /\ idx \in 1..(Len(urls) + 1)
    /\ Len(log) = idx - 1

-----------------------------------------------------------------------------
(* Properties *)

TrapKeywords  == {KwNormalTrap, KwContinuousTrap, KwCounterTrap}
MagicKeywords == {KwNormalMagic, KwContinuousMagic, KwQuickMagic, KwEquipMagic,
                  KwFieldMagic, KwRitualMagic}

HasAny(text, kws) == \E k \in kws : Contains(text, k)

(* The keyword groups in the order of the specification *)
KeywordGroups ==
    << [cat |-> "trap",    kws |-> TrapKeywords],
       [cat |-> "magic",   kws |-> MagicKeywords],
       [cat |-> "link",    kws |-> {KwLink}],
       [cat |-> "xyz",     kws |-> {KwXyz, KwXyzX}],
       [cat |-> "synchro", kws |-> {KwSynchro}],
       [cat |-> "fusion",  kws |-> {KwFusion}],
       [cat |-> "monster", kws |-> {KwNormal, KwEffect}] >>

MatchingGroups(text) ==
    {g \in 1..Len(KeywordGroups) : HasAny(text, KeywordGroups[g].kws)}

FirstMatchingCategory(text) ==
    IF MatchingGroups(text) = {} THEN "unknown"
    ELSE KeywordGroups[Min(MatchingGroups(text))].cat

(* C1: classifying a description text yields the category of the first    *)
(* keyword group, in the order trap, magic, link, xyz, synchro, fusion,    *)
(* monster, of which the text contains a keyword, and unknown (the URL is  *)
(* skipped) when it contains none; a text with a trap keyword and a magic  *)
(* keyword is a trap, whatever else it contains.                           *)
C1_FirstMatchWins ==
    [][(pc = "fetched" /\ soup.hasDesc) =>
         LET text == GetText(soup)
             cat  == FirstMatchingCategory(text)
         IN  /\ cat = "unknown" =>
                  /\ pc' = "loop"
                  /\ log' = Append(log, [url |-> urls[idx], card_type |-> "unknown",
                                         result |-> "unknown"])
             /\ cat # "unknown" => (pc' = "typed" /\ card_type' = cat)
             /\ (HasAny(text, TrapKeywords) /\ HasAny(text, MagicKeywords))
                  => card_type' = "trap"]_vars

(* A text with a magic keyword, then a link keyword, then a trap keyword    *)
(* has been classified as a trap                                           *)
C1_Witness ==
    /\ pc = "typed"
    /\ card_type = "trap"
    /\ GetText(soup) = KwQuickMagic \o KwLink \o KwCounterTrap

MonsterClasses ==
    {"MonsterCard", "XyzMonsterCard", "FusionMonsterCard", "SynchroMonsterCard",
     "LinkMonsterCard"}

(* C2: in every monster-family record exactly one of hasLevel, hasRank,    *)
(* hasLink is true: only hasLink in a Link record (whose hasDefense is     *)
(* false), only hasRank in an Xyz record, only hasLevel in a Normal/Effect, *)
(* Fusion or Synchro record.                                               *)
C2_ExactlyOneFlag ==
    (pc = "built" /\ card.class \in MonsterClasses) =>
      /\ Cardinality({f \in {"hasLevel", "hasRank", "hasLink"} : card[f]}) = 1
      /\ card.class = "LinkMonsterCard" => (card.hasLink /\ ~card.hasDefense)
      /\ card.class = "XyzMonsterCard" => card.hasRank
      /\ card.class \in {"MonsterCard", "FusionMonsterCard", "SynchroMonsterCard"}
           => card.hasLevel

ClassOf(ct) ==
    CASE ct = "trap"    -> "TrapCard"
      [] ct = "magic"   -> "MagicCard"
      [] ct = "monster" -> "MonsterCard"
      [] ct = "xyz"     -> "XyzMonsterCard"
      [] ct = "fusion"  -> "FusionMonsterCard"
      [] ct = "synchro" -> "SynchroMonsterCard"
      [] ct = "link"    -> "LinkMonsterCard"

(* C3: the builder step of a classified text never raises: it yields a     *)
(* record of the category's variant with every field of the variant; for   *)
(* an Xyz text the record has rank = the extracted rank, else the          *)
(* extracted level, else 0, level = null, hasRank and not hasLevel.        *)
C3_BuildNeverRaises ==
    [][((pc = "typed" /\ card_type \in {"trap", "magic"}) \/ pc = "stats") =>
         /\ pc' = "built"
         /\ card'.class = ClassOf(card_type)
         /\ Required(ClassOf(card_type)) \subseteq DOMAIN card'
         /\ card_type = "xyz" =>
              /\ card'.rank = (IF Has(stats, "rank") THEN stats["rank"]
                               ELSE IF Has(stats, "level") THEN stats["level"]
                               ELSE 0)
              /\ card'.level = None
              /\ card'.hasRank
              /\ ~card'.hasLevel]_vars

(* C4: in a batch run every URL is processed once, in list order, and the *)
(* run completes; a URL of unknown category is skipped without a record;   *)
(* for every URL of a known category a record is built and handed to the   *)
(* writer before the next URL is started.                                  *)
C4_BatchRun ==
    /\ \A i \in 1..Len(log) : log[i].url = urls[i]
    /\ \A i \in 1..Len(log) :
         log[i].card_type = "unknown" => log[i].result = "unknown"
    /\ \A i \in 1..Len(log) :
         log[i].card_type \notin {"unknown", "none"}
           => log[i].result \in {"saved", "write_error"}
    /\ pc = "done" => Len(log) = Len(urls)

(* The value a key of the stats has, if the key is present *)
StatIs(k, v) == Has(stats, k) /\ stats[k] = v

LinkFound(text) ==
    LET m == Search(RxLink, text) IN
    /\ StatIs("link", ToInt(Group(RxLink, text, m, 1)))
    /\ StatIs("hasLink", TRUE)
    /\ StatIs("hasLevel", FALSE)

RankFound(text) ==
    LET m == Search(RxRank, text) IN
    /\ StatIs("rank", ToInt(Group(RxRank, text, m, 1)))
    /\ StatIs("hasRank", TRUE)
    /\ StatIs("hasLevel", FALSE)

TrimmedLines(s) == [i \in 1..Len(PartsOf(s)) |-> Strip(PartsOf(s)[i])]

IsHeader(line)    == IsTypeTag(line) \/ IsStatsLine(line)
IsDiscarded(line) == line = <<>> \/ IsHeader(line) \/ line = RestrictionMarker

HeaderLines(ls) == {i \in 1..Len(ls) : IsHeader(ls[i])}

KeptLines(ls) ==
    IF HeaderLines(ls) = {} THEN <<>>
    ELSE SelectSeq(SubSeq(ls, Min(HeaderLines(ls)) + 1, Len(ls)),
                   LAMBDA line : ~IsDiscarded(line))

(* C6: the body text of a record is the non-discarded lines after the      *)
(* first header line, trimmed, in their order, joined by one space; the    *)
(* lines in front of the first header line are dropped; without a header   *)
(* line the body text is empty.                                            *)
C6_BodyAfterFirstHeader ==
    (pc = "built" /\ soup.hasP) =>
      /\ card.text = JoinSpace(KeptLines(TrimmedLines(soup)))
      /\ HeaderLines(TrimmedLines(soup)) = {} => card.text = <<>>

(* The prose line in front of the header was dropped, the line after it    *)
(* was kept, trimmed                                                       *)
C6_Witness ==
    /\ pc = "built"
    /\ soup.content = <<"a", "BR", "lb", "wana", "rb", "BR", " ", "b", " ">>
    /\ card.text = <<"b">>

E2EStatsOk ==
    /\ card_type = "monster"
    /\ StatIs("level", 4)
    /\ StatIs("element", <<"honoo">>)
    /\ StatIs("race", <<"sen", "shi", "yakara">>)
    /\ StatIs("attack", 1800)
    /\ StatIs("defense", 1200)
    /\ StatIs("hasDefense", TRUE)
    /\ StatIs("hasLevel", TRUE)

(* C7: the one-line text 【通常モンスター】 星4 / 炎 / 戦士族 / 攻1800 /     *)
(* 守1200 勇敢な戦士。 is classified as a Normal/Effect monster, has the    *)
(* stats level 4, element 炎, race 戦士族, attack 1800, defense 1200,       *)
(* hasDefense, hasLevel, and the body text 勇敢な戦士。                     *)
C7_EndToEnd ==
    (pc = "built" /\ soup.content = E2EText) =>
      (E2EStatsOk /\ card.text = E2EProse)

(* C7, amended: ... and the empty body text, because the one line holds    *)
(* the type tag and is discarded whole; with the tag, the stats line and   *)
(* the prose on three lines the body text is 勇敢な戦士。                   *)
C7_EndToEndOneLine ==
    /\ (pc = "built" /\ soup.content = E2EText) =>
         (E2EStatsOk /\ card.text = <<>>)
    /\ (pc = "built" /\ soup.content = E2ELines) =>
         (E2EStatsOk /\ card.text = E2EProse)

C7_Witness ==
    /\ pc = "built"
    /\ soup.content = E2EText
    /\ card.class = "MonsterCard"

LinkPrefix == <<"L", "I", "N", "K", "-">>

FirstPos(text, sub) == Min({i \in 1..(Len(text) + 1) : StartsAt(text, i, sub)})

BracketLRFirst(text) ==
    /\ Contains(text, BracketLR)
    /\ \A i \in 1..FirstPos(text, BracketLR) : ~StartsAt(text, i, LinkPrefix)
    /\ ~Search(RxFullStats, text).ok

C9_LabelFromScan ==
    (pc = "built" /\ card.class \in MonsterClasses) =>
      (Has(stats, "monster_type") /\ card.monster_type = stats["monster_type"])

ScanPhrases == <<KwNormal, KwEffect, KwFusion, KwSynchro, KwXyz, KwLink>>

FirstPhrase(text) ==
    ScanPhrases[Min({k \in 1..Len(ScanPhrases) : Contains(text, ScanPhrases[k])})]

FixedLabel(cls) ==
    CASE cls = "XyzMonsterCard"     -> KwXyz
      [] cls = "FusionMonsterCard"  -> KwFusion
      [] cls = "SynchroMonsterCard" -> KwSynchro
      [] cls = "LinkMonsterCard"    -> KwLink

(* C9, amended: the subtype label of a Normal/Effect record is the label   *)
(* the extractor's keyword scan found (the Normal or the Effect phrase);   *)
(* the label of an Xyz, Fusion, Synchro or Link record is the phrase of    *)
(* the category the classifier chose, also when the scan found another.    *)
C9_LabelPerVariant ==
    (pc = "built" /\ card.class \in MonsterClasses) =>
      IF card.class = "MonsterCard"
      THEN /\ card.monster_type = FirstPhrase(GetText(soup))
           /\ card.monster_type \in {KwNormal, KwEffect}
           /\ StatIs("monster_type", card.monster_type)
      ELSE card.monster_type = FixedLabel(card.class)

(* A Fusion record of a text in which the scan found the Effect phrase *)
C9_Witness ==
    /\ pc = "built"
    /\ card.class = "FusionMonsterCard"
    /\ StatIs("monster_type", KwEffect)
    /\ card.monster_type = KwFusion

PosIn(seq, x) == Min({i \in 1..Len(seq) : seq[i] = x})

(* The directions two lists have in common stand in the same order *)
SameRelativeOrder(a, b) ==
    \A i, j \in 1..Len(a) :
      (i < j /\ a[i] # a[j] /\ a[i] \in Range(b) /\ a[j] \in Range(b))
        => PosIn(b, a[i]) < PosIn(b, a[j])

BothMarkers(text) ==
    /\ Search(RxLinkDirs, text).ok
    /\ Has(stats, "linkDirection")
    /\ FallbackDirs(text) # <<>>

(* C10: for every text with a bracketed 【LINK-<int>:<directions>】 token   *)
(* and direction glyphs or words, the directions that the list of the      *)
(* bracketed token and the list of the fallback scan have in common stand  *)
(* in the same order in both.                                              *)
C10_PathsAgree ==
    (pc = "stats" /\ BothMarkers(GetText(soup))) =>
      SameRelativeOrder(stats["linkDirection"], FallbackDirs(GetText(soup)))

(* The directions of a list stand in compass order *)
InCompassOrder(a) ==
    \A i, j \in 1..Len(a) :
      (i < j /\ a[i] \in Range(CompassOrder) /\ a[j] \in Range(CompassOrder))
        => PosIn(CompassOrder, a[i]) <= PosIn(CompassOrder, a[j])

(* C10, amended: ... for every such text whose bracketed token lists its   *)
(* directions in compass order; the list of the bracketed token keeps the  *)
(* order of the token, so for a token such as 【LINK-2：右/左】 the two      *)
(* lists disagree.                                                         *)
C10_PathsAgreeInCompassOrder ==
    (/\ pc = "stats"
     /\ BothMarkers(GetText(soup))
     /\ InCompassOrder(stats["linkDirection"])) =>
      SameRelativeOrder(stats["linkDirection"], FallbackDirs(GetText(soup)))

(* The token lists 左上/上, the scan finds 左上, 上, 左 and, by the arrow,   *)
(* 右                                                                      *)
C10_Witness ==
    /\ pc = "stats"
    /\ GetText(soup) = KwLink \o BracketTok(<<DirUL, DirU>>) \o <<"arE">>
    /\ StatIs("linkDirection", <<DirUL, DirU>>)
    /\ FallbackDirs(GetText(soup)) = <<DirUL, DirU, DirL, DirR>>

(* The lines the loop of extract_card_text has kept for the body text *)
RetainedLines(s) == CardTextLoop(PartsOf(s), 1, FALSE, <<>>)

(* A line from which extract_monster_stats reads the stats: it matches the *)
(* full pattern of line 284 or the no-defense pattern of line 295          *)
IsExtractorStatsLine(line) ==
    Search(RxFullStats, line).ok \/ Search(RxNoDefense, line).ok

(* C11: the body text never contains a header line: it is made of the      *)
(* retained lines, and no retained line contains a type tag in brackets,   *)
(* matches the full stats pattern or the no-defense stats pattern, or is   *)
(* exactly the restriction marker.                                         *)
C11_NoHeaderInBody ==
    (pc = "built" /\ soup.hasP) =>
      /\ card.text = JoinSpace(RetainedLines(soup))
      /\ \A i \in 1..Len(RetainedLines(soup)) :
           LET line == RetainedLines(soup)[i] IN
           /\ ~IsTypeTag(line)
           /\ ~IsExtractorStatsLine(line)
           /\ line /= RestrictionMarker

(* C12: canNormalSummon is true only in a Normal monster record, that is  *)
(* a Normal/Effect record whose label is the Normal-monster phrase; every  *)
(* Effect, Fusion, Synchro, Xyz and Link record has canNormalSummon false, *)
(* also when its text contains the Normal-monster phrase; a trap or magic  *)
(* record has no such field.                                               *)
C12_NormalSummonOnlyNormal ==
    pc = "built" =>
      IF card.class \in MonsterClasses
      THEN /\ card.canNormalSummon =>
                (card.class = "MonsterCard" /\ card.monster_type = KwNormal)
           /\ (card.class = "MonsterCard" /\ card.monster_type = KwEffect)
                => ~card.canNormalSummon
           /\ card.class \in {"XyzMonsterCard", "FusionMonsterCard",
                              "SynchroMonsterCard", "LinkMonsterCard"}
                => ~card.canNormalSummon
      ELSE "canNormalSummon" \notin DOMAIN card

(* A Synchro record whose text contains the Normal-monster phrase, which   *)
(* the scan of the extractor has taken for the label                       *)
C12_Witness ==
    /\ pc = "built"
    /\ card.class = "SynchroMonsterCard"
    /\ Contains(GetText(soup), KwNormal)
    /\ StatIs("monster_type", KwNormal)
    /\ ~card.canNormalSummon

====
